---- MODULE Spec2Model ----
(***************************************************************************)
(* packed_tree: a non-sparse octree packed into one flat array, addressed  *)
(* by four coordinate systems (NodeIndex, NodePosition, LayerIndex,        *)
(* LayerPosition).  A tree shape is identified, as in the const generic    *)
(* Tree<T, SIZE>, by its SIZE.                                             *)
(***************************************************************************)
EXTENDS Integers, Sequences, FiniteSets, TLC

VARIABLES
    shape,             \* SIZE of the tree type in use: Tree<T, SIZE>
    query, result,     \* a call of a coordinate function and what it returned
    nodes,             \* NodesRaw::nodes, the staging buffer
    debug_assertions,  \* whether the build checks debug_assert! (debug) or not (release)
    panicked,          \* a fail-fast assertion has fired
    pushes,            \* number of NodesRaw::push calls made
    stored,            \* Tree::stored
    before,            \* shape and cells when the last operation was called
    returned,          \* the last operation that returned, with what it returned
    sets, builds       \* number of Tree::set and Tree::build calls made

coordVars == <<query, result>>

rawVars == <<nodes, debug_assertions, panicked, pushes>>

treeVars == <<stored, before, returned, sets, builds>>

vars == <<shape, query, result, nodes, debug_assertions, panicked, pushes, stored, before, returned, sets, builds>>

(***************************************************************************)
(* Bounds of the model.                                                    *)
(***************************************************************************)
\* number of pre-defined shapes (smallest first) the coordinate queries range over
MaxCoordShapes == 4
\* number of pre-defined shapes (smallest first) whose trees are stored and built
MaxTreeShapes == 3

(***************************************************************************)
(* Option<T>                                                               *)
(***************************************************************************)
None == <<>>

Some(v) == <<v>>

(***************************************************************************)
(* Size parameters: TREE_* constants and the TreeInterface impls.          *)
(***************************************************************************)
TREE_128 == 128 * 128 * 128 + 64 * 64 * 64 + 32 * 32 * 32 + 16 * 16 * 16 + 8 * 8 * 8 + 4 * 4 * 4 + 2 * 2 * 2 + 1

TREE_64 == 64 * 64 * 64 + 32 * 32 * 32 + 16 * 16 * 16 + 8 * 8 * 8 + 4 * 4 * 4 + 2 * 2 * 2 + 1

TREE_32 == 32 * 32 * 32 + 16 * 16 * 16 + 8 * 8 * 8 + 4 * 4 * 4 + 2 * 2 * 2 + 1

TREE_16 == 16 * 16 * 16 + 8 * 8 * 8 + 4 * 4 * 4 + 2 * 2 * 2 + 1

TREE_8 == 8 * 8 * 8 + 4 * 4 * 4 + 2 * 2 * 2 + 1

TREE_4 == 4 * 4 * 4 + 2 * 2 * 2 + 1

TREE_2 == 2 * 2 * 2 + 1

TREE_1 == 1

\* implemented_tree_sizes::SIZES
SIZES == <<TREE_1, TREE_2, TREE_4, TREE_8, TREE_16, TREE_32, TREE_64, TREE_128>>

Min(a, b) == IF a < b THEN a ELSE b

CoordShapes == {SIZES[k] : k \in 1..Min(MaxCoordShapes, Len(SIZES))}

TreeShapes == {SIZES[k] : k \in 1..Min(MaxTreeShapes, Len(SIZES))}

\* const BIGGEST_ROW_SIZE of the impl for Tree<T, S>
BIGGEST_ROW_SIZE(S) ==
    CASE S = TREE_128 -> 128
      [] S = TREE_64 -> 64
      [] S = TREE_32 -> 32
      [] S = TREE_16 -> 16
      [] S = TREE_8 -> 8
      [] S = TREE_4 -> 4
      [] S = TREE_2 -> 2
      [] S = TREE_1 -> 1

\* const DEPTH of the impl for Tree<T, S>
DEPTH(S) ==
    CASE S = TREE_128 -> 8
      [] S = TREE_64 -> 7
      [] S = TREE_32 -> 6
      [] S = TREE_16 -> 5
      [] S = TREE_8 -> 4
      [] S = TREE_4 -> 3
      [] S = TREE_2 -> 2
      [] S = TREE_1 -> 1

MAX_DEPTH_INDEX(S) == DEPTH(S) - 1

\* rows_sizes() with the last row left at 0 instead of being changed to 1
rows_sizes_ending_at_0(S) ==
    [k \in 1..DEPTH(S) |-> IF k = DEPTH(S) THEN 0 ELSE BIGGEST_ROW_SIZE(S) \div (2^(k - 1))]

\* hand-specified rows_sizes() of the impl for Tree<T, S>
rows_sizes(S) ==
    CASE S = TREE_128 -> <<128, 64, 32, 16, 8, 4, 2, 1>>
      [] S = TREE_64 -> <<64, 32, 16, 8, 4, 2, 1>>
      [] S = TREE_32 -> <<32, 16, 8, 4, 2, 1>>
      [] S = TREE_16 -> <<16, 8, 4, 2, 1>>
      [] S = TREE_8 -> <<8, 4, 2, 1>>
      [] S = TREE_4 -> <<4, 2, 1>>
      [] S = TREE_2 -> <<2, 1>>
      [] S = TREE_1 -> <<1>>

\* hand-specified layers_sizes() of the impl for Tree<T, S>
layers_sizes(S) ==
    CASE S = TREE_128 -> <<2097152, 262144, 32768, 4096, 512, 64, 8, 1>>
      [] S = TREE_64 -> <<262144, 32768, 4096, 512, 64, 8, 1>>
      [] S = TREE_32 -> <<32768, 4096, 512, 64, 8, 1>>
      [] S = TREE_16 -> <<4096, 512, 64, 8, 1>>
      [] S = TREE_8 -> <<512, 64, 8, 1>>
      [] S = TREE_4 -> <<64, 8, 1>>
      [] S = TREE_2 -> <<8, 1>>
      [] S = TREE_1 -> <<1>>

\* Self::rows_sizes()[depth.raw()]; sequences are 1-based, depths 0-based
row_size(S, d) == rows_sizes(S)[d + 1]

\* Self::layers_sizes()[depth.raw()]
layer_size(S, d) == layers_sizes(S)[d + 1]

(***************************************************************************)
(* NodeIndex                                                               *)
(***************************************************************************)
is_valid_index(S, index) == index < S

RECURSIVE depth_loop(_, _, _, _)
\* the for loop of NodeIndex::depth: k is the 1-based iteration, so the
\* local `depth` equals k - 1 when the k-th iteration starts
depth_loop(rows, k, layer_max_index, index) ==
    IF k > Len(rows)
    THEN k - 1
    ELSE LET m == layer_max_index + rows[k] * rows[k] * rows[k]
         IN  IF index < m THEN k - 1 ELSE depth_loop(rows, k + 1, m, index)

\* NodeIndex::depth with the comparison of the loop off by one (<= for <)
RECURSIVE depth_loop_inclusive(_, _, _, _)
depth_loop_inclusive(rows, k, layer_max_index, index) ==
    IF k > Len(rows)
    THEN k - 1
    ELSE LET m == layer_max_index + rows[k] * rows[k] * rows[k]
         IN  IF index <= m THEN k - 1 ELSE depth_loop_inclusive(rows, k + 1, m, index)

NodeIndex_depth_inclusive(S, index) == depth_loop_inclusive(rows_sizes(S), 1, 0, index)

NodeIndex_depth(S, index) == depth_loop(rows_sizes(S), 1, 0, index)

RECURSIVE sum_cubes(_, _)
\* rows_sizes[0..depth].iter().map(|r| r * r * r).sum()
sum_cubes(rows, d) ==
    IF d = 0 THEN 0 ELSE sum_cubes(rows, d - 1) + rows[d] * rows[d] * rows[d]

(***************************************************************************)
(* LayerIndex = [index, depth], LayerPosition = [x, y, z, depth],          *)
(* NodePosition = [x, y, z, depth]                                         *)
(***************************************************************************)
Position(px, py, pz, d) == [x |-> px, y |-> py, z |-> pz, depth |-> d]

LayerIndex_is_valid_index_depth(S, index, d) ==
    d <= MAX_DEPTH_INDEX(S) /\ index < layers_sizes(S)[d + 1]

\* LayerIndex from LayerPosition with z scaled by one row only
LayerIndex_from_LayerPosition_flat(S, value) ==
    LET r == row_size(S, value.depth)
    IN  [index |-> value.x + (value.y * r) + (value.z * r), depth |-> value.depth]

\* From<LayerPosition<T>> for LayerIndex<T>
LayerIndex_from_LayerPosition(S, value) ==
    LET r == row_size(S, value.depth)
    IN  [index |-> value.x + (value.y * r) + (value.z * r * r), depth |-> value.depth]

\* From<LayerIndex<T>> for LayerPosition<T>
LayerPosition_from_LayerIndex(S, value) ==
    LET r == row_size(S, value.depth)
        pz == value.index \div (r * r)
        index == value.index - (pz * r * r)
    IN  Position(index % r, index \div r, pz, value.depth)

\* From<NodeIndex<T>> for LayerPosition<T>
LayerPosition_from_NodeIndex(S, value) ==
    LET d == NodeIndex_depth(S, value)
        remainder == sum_cubes(rows_sizes(S), d)
    IN  LayerPosition_from_LayerIndex(S, [index |-> value - remainder, depth |-> d])

\* LayerPosition from NodePosition dividing by the row size itself
LayerPosition_from_NodePosition_by_row(S, value) ==
    LET divisor == row_size(S, value.depth)
    IN  Position(value.x \div divisor, value.y \div divisor, value.z \div divisor, value.depth)

\* From<NodePosition<T>> for LayerPosition<T>
LayerPosition_from_NodePosition(S, value) ==
    LET divisor == BIGGEST_ROW_SIZE(S) \div row_size(S, value.depth)
    IN  Position(value.x \div divisor, value.y \div divisor, value.z \div divisor, value.depth)

\* From<NodeIndex<T>> for LayerIndex<T>
LayerIndex_from_NodeIndex(S, value) ==
    LayerIndex_from_LayerPosition(S, LayerPosition_from_NodeIndex(S, value))

\* From<LayerPosition<T>> for NodeIndex<T>
NodeIndex_from_LayerPosition(S, value) ==
    LET li == LayerIndex_from_LayerPosition(S, value)
    IN  li.index + sum_cubes(rows_sizes(S), li.depth)

\* From<NodePosition<T>> for NodeIndex<T>
NodeIndex_from_NodePosition(S, value) ==
    NodeIndex_from_LayerPosition(S, LayerPosition_from_NodePosition(S, value))

\* From<LayerIndex<T>> for NodeIndex<T>
NodeIndex_from_LayerIndex(S, value) ==
    NodeIndex_from_LayerPosition(S, LayerPosition_from_LayerIndex(S, value))

\* NodePosition from LayerPosition scaling by the row size of the layer
NodePosition_from_LayerPosition_by_row(S, value) ==
    LET multiplier == row_size(S, value.depth)
    IN  Position(value.x * multiplier, value.y * multiplier, value.z * multiplier, value.depth)

\* From<LayerPosition<T>> for NodePosition<T>
NodePosition_from_LayerPosition(S, value) ==
    LET multiplier == BIGGEST_ROW_SIZE(S) \div row_size(S, value.depth)
    IN  Position(value.x * multiplier, value.y * multiplier, value.z * multiplier, value.depth)

\* From<NodeIndex<T>> for NodePosition<T>
NodePosition_from_NodeIndex(S, value) ==
    NodePosition_from_LayerPosition(S, LayerPosition_from_NodeIndex(S, value))

\* NodePosition::child_position reporting no child for depth 1 as well
child_position_none_below_2(self) ==
    IF self.depth <= 1 THEN None ELSE Some([self EXCEPT !.depth = self.depth - 1])

\* NodePosition::child_position (called children_anchor by Tree::children_indices)
child_position(self) ==
    IF self.depth = 0 THEN None ELSE Some([self EXCEPT !.depth = self.depth - 1])

\* LayerPosition::parrent_position reporting no parent one layer early
parrent_position_none_below_deepest(S, self) ==
    IF self.depth + 1 >= MAX_DEPTH_INDEX(S)
    THEN None
    ELSE LET d == self.depth + 1
             r == row_size(S, d)
         IN  Some(Position(self.x \div r, self.y \div r, self.z \div r, d))

\* LayerPosition::parrent_position
parrent_position(S, self) ==
    IF self.depth >= MAX_DEPTH_INDEX(S)
    THEN None
    ELSE LET d == self.depth + 1
         IN  IF d = MAX_DEPTH_INDEX(S)
             THEN Some(Position(0, 0, 0, d))
             ELSE LET r == row_size(S, d)
                  IN  Some(Position(self.x \div r, self.y \div r, self.z \div r, d))

(***************************************************************************)
(* Tree navigation                                                         *)
(***************************************************************************)
\* Tree::parrent_index
parrent_index(S, index) ==
    LET p == parrent_position(S, LayerPosition_from_NodeIndex(S, index))
    IN  IF p = None THEN None ELSE Some(NodeIndex_from_LayerPosition(S, p[1]))

\* child offsets enumerated with x outermost and z innermost
child_offset_x_outer(k, r) == (k \div 4) + (((k \div 2) % 2) * r) + ((k % 2) * r * r)

\* child offsets with the z step of one row instead of one plane
child_offset_z_by_row(k, r) == (k % 2) + (((k \div 2) % 2) * r) + ((k \div 4) * r)

\* the offset of the k-th child (k in 0..7): z outermost, then y, x innermost
child_offset(k, r) == (k % 2) + (((k \div 2) % 2) * r) + ((k \div 4) * r * r)

\* Tree::children_indices
children_indices(S, index) ==
    LET anchor == child_position(NodePosition_from_NodeIndex(S, index))
    IN  IF anchor = None
        THEN None
        ELSE LET children_anchor == NodeIndex_from_NodePosition(S, anchor[1])
                 r == row_size(S, NodeIndex_depth(S, children_anchor))
             IN  Some([k \in 1..8 |-> children_anchor + child_offset(k - 1, r)])

(***************************************************************************)
(* Coordinate queries: each action applies one pure function of the        *)
(* coordinate systems to a valid NodeIndex of the chosen shape.            *)
(***************************************************************************)
NoQuery == [op |-> "none", arg |-> 0]

\* no tree has been constructed / no operation has returned
NoTree == [shape |-> 0, stored |-> <<>>]

NoCall == [op |-> "none"]

QueryChildrenIndices(i) ==
    /\ query = NoQuery
    /\ query' = [op |-> "children_indices", arg |-> i]
    /\ result' = children_indices(shape, i)
    /\ UNCHANGED <<shape, rawVars, treeVars>>

\* children_indices of every cell of layer d, as the children test walks a layer
QueryChildrenOfLayer(d) ==
    /\ query = NoQuery
    /\ query' = [op |-> "children_of_layer", arg |-> d]
    /\ result' = [p \in sum_cubes(rows_sizes(shape), d)..(sum_cubes(rows_sizes(shape), d + 1) - 1)
                      |-> children_indices(shape, p)]
    /\ UNCHANGED <<shape, rawVars, treeVars>>

QueryDepth(i) ==
    /\ query = NoQuery
    /\ query' = [op |-> "depth", arg |-> i]
    /\ result' = NodeIndex_depth(shape, i)
    /\ UNCHANGED <<shape, rawVars, treeVars>>

QueryLayerIndexRoundTrip(i) ==
    /\ query = NoQuery
    /\ query' = [op |-> "layer_index_round_trip", arg |-> i]
    /\ result' = NodeIndex_from_LayerIndex(shape, LayerIndex_from_NodeIndex(shape, i))
    /\ UNCHANGED <<shape, rawVars, treeVars>>

QueryNodePositionRoundTrip(i) ==
    /\ query = NoQuery
    /\ query' = [op |-> "node_position_round_trip", arg |-> i]
    /\ result' = LayerPosition_from_NodePosition(shape,
                     NodePosition_from_LayerPosition(shape, LayerPosition_from_NodeIndex(shape, i)))
    /\ UNCHANGED <<shape, rawVars, treeVars>>

QueryParrentIndex(i) ==
    /\ query = NoQuery
    /\ query' = [op |-> "parrent_index", arg |-> i]
    /\ result' = parrent_index(shape, i)
    /\ UNCHANGED <<shape, rawVars, treeVars>>

CoordInit ==
    /\ shape \in CoordShapes
    /\ query = NoQuery
    /\ result = None
    /\ nodes = <<>>
    /\ debug_assertions = TRUE
    /\ panicked = FALSE
    /\ pushes = 0
    /\ stored = <<>>
    /\ before = NoTree
    /\ returned = NoCall
    /\ sets = 0
    /\ builds = 0

CoordNext ==
    /\ query = NoQuery
    /\ \/ \E i \in 0..(shape - 1) :
              \/ QueryChildrenIndices(i)
              \/ QueryDepth(i)
              \/ QueryLayerIndexRoundTrip(i)
              \/ QueryNodePositionRoundTrip(i)
              \/ QueryParrentIndex(i)
       \/ \E d \in 1..MAX_DEPTH_INDEX(shape) : QueryChildrenOfLayer(d)

CoordSpec == CoordInit /\ [][CoordNext]_vars

(***************************************************************************)
(* Validators and constructors of the coordinate systems                   *)
(***************************************************************************)
\* number of shapes, smallest first, whose validators are queried
MaxValidShapes == 3
\* bits of usize on the 64-bit targets the crate is built for
WordBits == 64

ValidShapes == {SIZES[k] : k \in 1..Min(MaxValidShapes, 8)}

\* outcome of a call: a value handed back, or a panic
Returned(v) == [panic |-> FALSE, value |-> v]
Panic == [panic |-> TRUE, value |-> FALSE]

\* NodePosition::is_valid_position.  2_usize.pow(depth) is computed first: it
\* overflows for depth >= WordBits, which panics in a build with overflow
\* checks and wraps to 0 otherwise (the depths drawn here are below 2^32, so
\* `depth as u32` keeps them).
NodePosition_is_valid_position(S, overflow_checks, x, y, z, depth) ==
    IF depth >= WordBits /\ overflow_checks
    THEN Panic
    ELSE LET divisor == IF depth >= WordBits THEN 0 ELSE 2^depth
         IN  Returned(/\ depth <= MAX_DEPTH_INDEX(S)
                      /\ x % divisor = 0
                      /\ x < BIGGEST_ROW_SIZE(S)
                      /\ y % divisor = 0
                      /\ y < BIGGEST_ROW_SIZE(S)
                      /\ z % divisor = 0
                      /\ z < BIGGEST_ROW_SIZE(S))

\* NodePosition::new: debug_assert! evaluates the validator only in a build
\* with debug assertions (which is also the build with overflow checks)
NodePosition_new(S, debug, x, y, z, depth) ==
    IF debug
    THEN LET valid == NodePosition_is_valid_position(S, TRUE, x, y, z, depth)
         IN  IF valid.panic \/ ~valid.value THEN Panic ELSE Returned(Position(x, y, z, depth))
    ELSE Returned(Position(x, y, z, depth))

\* LayerPosition::is_valid_position: T::row_size(depth) indexes rows_sizes()
\* before anything is compared
LayerPosition_is_valid_position(S, x, y, z, depth) ==
    IF depth >= Len(rows_sizes(S))
    THEN Panic
    ELSE LET r == row_size(S, depth)
         IN  Returned(x < r /\ y < r /\ z < r /\ depth <= MAX_DEPTH_INDEX(S))

\* LayerPosition::new
LayerPosition_new(S, debug, x, y, z, depth) ==
    IF debug
    THEN LET valid == LayerPosition_is_valid_position(S, x, y, z, depth)
         IN  IF valid.panic \/ ~valid.value THEN Panic ELSE Returned(Position(x, y, z, depth))
    ELSE Returned(Position(x, y, z, depth))

Err == [ok |-> FALSE, index |-> 0]
Ok(index) == [ok |-> TRUE, index |-> index]

\* NodeIndex::new_checked accepting SIZE itself
NodeIndex_new_checked_inclusive(S, index) ==
    IF index > S THEN Returned(Err) ELSE Returned(Ok(index))

\* NodeIndex::new_checked
NodeIndex_new_checked(S, index) ==
    IF ~is_valid_index(S, index) THEN Returned(Err) ELSE Returned(Ok(index))

\* NodeIndex::new
NodeIndex_new(S, debug, index) ==
    IF debug /\ ~is_valid_index(S, index) THEN Panic ELSE Returned(index)

(***************************************************************************)
(* Node<T> with T = usize                                                  *)
(***************************************************************************)
Empty == [tag |-> "Empty", val |-> 0]

Reduced == [tag |-> "Reduced", val |-> 0]

Filled(v) == [tag |-> "Filled", val |-> v]

\* cell `index` of a Vec or array of nodes (0-based as in the source)
At(cells, index) == cells[index + 1]

\* vec![Node::Empty; n]
EmptyNodes(n) == [i \in 1..n |-> Empty]

(***************************************************************************)
(* NodesRaw: the staging buffer                                            *)
(***************************************************************************)
\* From<Vec<Node<T>>> for NodesRaw<T, U>
NodesRaw_from_Vec(S, value) ==
    IF Len(value) > S THEN SubSeq(value, 1, S) ELSE value

\* Tree::from(NodesRaw) keeping the last SIZE nodes of an oversized buffer
Tree_from_NodesRaw_keep_tail(S, value) ==
    IF Len(value) > S
    THEN SubSeq(value, Len(value) - S + 1, Len(value))
    ELSE value \o EmptyNodes(S - Len(value))

\* From<NodesRaw<T, Self>> for Tree<T, SIZE>
Tree_from_NodesRaw(S, value) ==
    IF Len(value) > S
    THEN SubSeq(value, 1, S)
    ELSE value \o EmptyNodes(S - Len(value))

(***************************************************************************)
(* Tree                                                                    *)
(***************************************************************************)
\* Tree::new / Default for Tree
Tree_new(S) == EmptyNodes(S)

\* the four coordinate systems, P: Into<NodeIndex<Self>>
Coordinate(system, v) == [sys |-> system, v |-> v]

into_NodeIndex(S, position) ==
    CASE position.sys = "NodeIndex" -> position.v
      [] position.sys = "NodePosition" -> NodeIndex_from_NodePosition(S, position.v)
      [] position.sys = "LayerIndex" -> NodeIndex_from_LayerIndex(S, position.v)
      [] position.sys = "LayerPosition" -> NodeIndex_from_LayerPosition(S, position.v)

\* Tree::get
Tree_get(S, tree, position) == At(tree, into_NodeIndex(S, position))

\* Tree::set handing back the node it was given
Tree_set_returns_new(S, tree, position, node) ==
    LET index == into_NodeIndex(S, position)
    IN  [stored |-> [tree EXCEPT ![index + 1] = node], old |-> node]

\* Tree::set writing the node to the cell after the addressed one as well
Tree_set_spills(S, tree, position, node) ==
    LET index == into_NodeIndex(S, position)
    IN  [stored |-> [tree EXCEPT ![index + 1] = node, ![Min(index + 2, S)] = node],
         old |-> At(tree, index)]

\* Tree::set: the cells after the swap, and the node swapped out
Tree_set(S, tree, position, node) ==
    LET index == into_NodeIndex(S, position)
    IN  [stored |-> [tree EXCEPT ![index + 1] = node], old |-> At(tree, index)]

\* Tree::children
Tree_children(S, tree, position) ==
    LET indices == children_indices(S, into_NodeIndex(S, position))
    IN  IF indices = None
        THEN None
        ELSE Some([k \in 1..8 |-> Tree_get(S, tree, Coordinate("NodeIndex", indices[1][k]))])

\* Tree::parrent
Tree_parrent(S, tree, position) ==
    LET index == parrent_index(S, into_NodeIndex(S, position))
    IN  IF index = None THEN None ELSE Some(Tree_get(S, tree, Coordinate("NodeIndex", index[1])))

\* the combine rule of tree_tests::build
empty_count_rule(children) ==
    LET empty_count == Cardinality({k \in 1..8 : children[k].tag \in {"Reduced", "Empty"}})
    IN  IF empty_count = 8 THEN Empty
        ELSE IF empty_count > 0 THEN Reduced
        ELSE Filled(9999)

\* a combine rule that depends on the order of the children: a clone of the first
first_child_rule(children) == children[1]

Rules == {"empty_count", "first_child"}

combine_rule(r, children) ==
    IF r = "empty_count" THEN empty_count_rule(children) ELSE first_child_rule(children)

\* the loop body of Tree::build writing Empty to a cell without children
build_visit_childless_emptied(S, r, acc, position) ==
    LET children == Tree_children(S, acc.stored, Coordinate("LayerPosition", position))
        index == NodeIndex_from_LayerPosition(S, position)
    IN  IF children = None
        THEN [stored |-> Tree_set(S, acc.stored, Coordinate("LayerPosition", position), Empty).stored,
              writes |-> acc.writes]
        ELSE [stored |-> Tree_set(S, acc.stored, Coordinate("LayerPosition", position),
                                  combine_rule(r, children[1])).stored,
              writes |-> Append(acc.writes, index)]

\* the loop body of Tree::build leaving alone a cell that is not Empty
build_visit_keeps_occupied(S, r, acc, position) ==
    LET children == Tree_children(S, acc.stored, Coordinate("LayerPosition", position))
        index == NodeIndex_from_LayerPosition(S, position)
    IN  IF children = None \/ At(acc.stored, index) # Empty
        THEN acc
        ELSE [stored |-> Tree_set(S, acc.stored, Coordinate("LayerPosition", position),
                                  combine_rule(r, children[1])).stored,
              writes |-> Append(acc.writes, index)]

\* the loop body of Tree::build: acc holds the cells and the log of cells written
build_visit(S, r, acc, position) ==
    LET children == Tree_children(S, acc.stored, Coordinate("LayerPosition", position))
        index == NodeIndex_from_LayerPosition(S, position)
    IN  IF children = None
        THEN acc
        ELSE [stored |-> Tree_set(S, acc.stored, Coordinate("LayerPosition", position),
                                  combine_rule(r, children[1])).stored,
              writes |-> Append(acc.writes, index)]

\* The iterator of Tree::build is four nested loops: depth outermost, then
\* z, then y, x innermost.  acc holds the cells and the log of cells written.
\* Each iteration binds its result to a variable of a singleton set, so that
\* the next iteration starts from a value and not from an unevaluated term.
RECURSIVE build_x_loop(_, _, _, _, _, _, _)
build_x_loop(S, r, acc, px, py, pz, d) ==
    IF px >= row_size(S, d)
    THEN acc
    ELSE CHOOSE out \in {build_x_loop(S, r, visited, px + 1, py, pz, d) :
                            visited \in {build_visit(S, r, acc, Position(px, py, pz, d))}} : TRUE

RECURSIVE build_y_loop(_, _, _, _, _, _)
build_y_loop(S, r, acc, py, pz, d) ==
    IF py >= row_size(S, d)
    THEN acc
    ELSE CHOOSE out \in {build_y_loop(S, r, row, py + 1, pz, d) :
                            row \in {build_x_loop(S, r, acc, 0, py, pz, d)}} : TRUE

RECURSIVE build_z_loop(_, _, _, _, _)
build_z_loop(S, r, acc, pz, d) ==
    IF pz >= row_size(S, d)
    THEN acc
    ELSE CHOOSE out \in {build_z_loop(S, r, plane, pz + 1, d) :
                            plane \in {build_y_loop(S, r, acc, 0, pz, d)}} : TRUE

RECURSIVE build_depth_loop_deepest_first(_, _, _, _)
\* the loop over the layers visiting the deepest layer first
build_depth_loop_deepest_first(S, r, acc, d) ==
    IF d >= Len(rows_sizes(S))
    THEN acc
    ELSE CHOOSE out \in {build_depth_loop_deepest_first(S, r, layer, d + 1) :
                            layer \in {build_z_loop(S, r, acc, 0, Len(rows_sizes(S)) - 1 - d)}} : TRUE

RECURSIVE build_depth_loop_skip_deepest(_, _, _, _)
\* the loop over the layers stopping before the deepest one
build_depth_loop_skip_deepest(S, r, acc, d) ==
    IF d + 1 >= Len(rows_sizes(S))
    THEN acc
    ELSE CHOOSE out \in {build_depth_loop_skip_deepest(S, r, layer, d + 1) :
                            layer \in {build_z_loop(S, r, acc, 0, d)}} : TRUE

RECURSIVE build_depth_loop(_, _, _, _)
\* Self::rows_sizes().into_iter().enumerate(): d is the layer about to be visited
build_depth_loop(S, r, acc, d) ==
    IF d >= Len(rows_sizes(S))
    THEN acc
    ELSE CHOOSE out \in {build_depth_loop(S, r, layer, d + 1) :
                            layer \in {build_z_loop(S, r, acc, 0, d)}} : TRUE

\* Tree::build combining, for every cell, the children as they were when build was called
Tree_build_from_snapshot(S, tree, r) ==
    LET parents == {c \in 0..(S - 1) : NodeIndex_depth(S, c) > 0}
    IN  [stored |-> [i \in 1..S |->
                        IF i - 1 \in parents
                        THEN combine_rule(r, Tree_children(S, tree, Coordinate("NodeIndex", i - 1))[1])
                        ELSE tree[i]],
         writes |-> [k \in 1..Cardinality(parents) |-> layer_size(S, 0) + k - 1]]

\* Tree::build
Tree_build(S, tree, r) ==
    build_depth_loop(S, r, [stored |-> tree, writes |-> <<>>], 0)

\* the position of S in SIZES
RECURSIVE size_position(_, _)
size_position(S, k) == IF SIZES[k] = S THEN k ELSE size_position(S, k + 1)

\* the shape with half the biggest row size: $n of impl_From_for_Tree!($m, $n)
smaller_shape(M) == SIZES[size_position(M, 1) - 1]

\* impl_From_for_Tree taking the first cells of the bigger tree
Tree_from_bigger_prefix(M, value) == SubSeq(value, 1, smaller_shape(M))

\* impl_From_for_Tree!($m, $n): From<Tree<T, $m>> for Tree<T, $n>
Tree_from_bigger(M, value) ==
    LET start == layer_size(M, 0)
        end == M
    IN  SubSeq(value, start + 1, end)

(***************************************************************************)
(* Trees: construction, set, build and the conversion to the smaller shape *)
(***************************************************************************)
\* side of the cube of Empty cells at the origin of the finest layer of an input
MaxHole == 2
\* number of Tree::set calls in one behaviour
MaxSets == 1
\* number of Tree::build calls in one behaviour
MaxBuilds == 2

\* the Vec of tree_tests::nodes_raw(len), Filled(i) at i, with the finest
\* cells of layer position below `hole` on every axis set to Empty
InputVec(S, len, hole) ==
    [i \in 1..len |->
        IF i - 1 < layer_size(S, 0)
           /\ LET p == LayerPosition_from_NodeIndex(S, i - 1)
              IN  p.x < hole /\ p.y < hole /\ p.z < hole
        THEN Empty
        ELSE Filled(i - 1)]

\* lengths of the inputs of a tree: nothing, the finest layer, every cell
TreeLens(S) == {0, layer_size(S, 0), S}

\* first and last cell of every layer
ProbeCells(S) ==
    UNION {{sum_cubes(rows_sizes(S), d), sum_cubes(rows_sizes(S), d + 1) - 1} : d \in 0..MAX_DEPTH_INDEX(S)}

Systems == {"NodeIndex", "NodePosition", "LayerIndex", "LayerPosition"}

\* the cell of NodeIndex c addressed in the given coordinate system
CoordinateOf(S, system, c) ==
    CASE system = "NodeIndex" -> Coordinate(system, c)
      [] system = "NodePosition" -> Coordinate(system, NodePosition_from_NodeIndex(S, c))
      [] system = "LayerIndex" -> Coordinate(system, LayerIndex_from_NodeIndex(S, c))
      [] system = "LayerPosition" -> Coordinate(system, LayerPosition_from_NodeIndex(S, c))

SetNodes == {Empty, Filled(7)}

Snapshot == [shape |-> shape, stored |-> stored]

TreeSet(position, node) ==
    /\ sets < MaxSets
    /\ \E swapped \in {Tree_set(shape, stored, position, node)} :
           /\ stored' = swapped.stored
           /\ returned' = [op |-> "set", position |-> position, node |-> node, old |-> swapped.old]
    /\ before' = Snapshot
    /\ sets' = sets + 1
    /\ UNCHANGED <<shape, coordVars, rawVars, builds>>

TreeBuild(r) ==
    /\ builds < MaxBuilds
    /\ \E built \in {Tree_build(shape, stored, r)} :
           /\ stored' = built.stored
           /\ returned' = [op |-> "build", rule |-> r, writes |-> built.writes]
    /\ before' = Snapshot
    /\ builds' = builds + 1
    /\ UNCHANGED <<shape, coordVars, rawVars, sets>>

TreeFromBigger ==
    /\ shape # TREE_1
    /\ shape' = smaller_shape(shape)
    /\ stored' = Tree_from_bigger(shape, stored)
    /\ returned' = [op |-> "from_bigger"]
    /\ before' = Snapshot
    /\ UNCHANGED <<coordVars, rawVars, sets, builds>>

TreeInit ==
    /\ shape \in TreeShapes
    /\ query = NoQuery
    /\ result = None
    /\ nodes = <<>>
    /\ debug_assertions = TRUE
    /\ panicked = FALSE
    /\ pushes = 0
    /\ \E len \in TreeLens(shape), hole \in 0..MaxHole :
           stored = Tree_from_NodesRaw(shape, NodesRaw_from_Vec(shape, InputVec(shape, len, hole)))
    /\ before = NoTree
    /\ returned = NoCall
    /\ sets = 0
    /\ builds = 0

\* build and conversion, starting from the constructed trees
TreeNext ==
    \/ \E r \in Rules : TreeBuild(r)
    \/ TreeFromBigger

TreeSpec == TreeInit /\ [][TreeNext]_vars

\* the operations that take &self: the cells are not among what they can write
TreeGet(position) ==
    /\ returned' = [op |-> "get", position |-> position, value |-> Tree_get(shape, stored, position)]
    /\ before' = Snapshot
    /\ UNCHANGED <<shape, coordVars, rawVars, stored, sets, builds>>

TreeChildren(position) ==
    /\ returned' = [op |-> "children", position |-> position,
                    value |-> Tree_children(shape, stored, position)]
    /\ before' = Snapshot
    /\ UNCHANGED <<shape, coordVars, rawVars, stored, sets, builds>>

TreeChildrenIndices(position) ==
    /\ returned' = [op |-> "children_indices", position |-> position,
                    value |-> children_indices(shape, into_NodeIndex(shape, position))]
    /\ before' = Snapshot
    /\ UNCHANGED <<shape, coordVars, rawVars, stored, sets, builds>>

TreeParrent(position) ==
    /\ returned' = [op |-> "parrent", position |-> position,
                    value |-> Tree_parrent(shape, stored, position)]
    /\ before' = Snapshot
    /\ UNCHANGED <<shape, coordVars, rawVars, stored, sets, builds>>

TreeParrentIndex(position) ==
    /\ returned' = [op |-> "parrent_index", position |-> position,
                    value |-> parrent_index(shape, into_NodeIndex(shape, position))]
    /\ before' = Snapshot
    /\ UNCHANGED <<shape, coordVars, rawVars, stored, sets, builds>>

\* single-cell writes through each coordinate system, starting from the constructed trees
SetNext ==
    \E c \in ProbeCells(shape), system \in Systems, node \in SetNodes :
        TreeSet(CoordinateOf(shape, system, c), node)

SetSpec == TreeInit /\ [][SetNext]_vars

\* a tree of distinct cells
FrameInit ==
    /\ shape \in TreeShapes
    /\ query = NoQuery
    /\ result = None
    /\ nodes = <<>>
    /\ debug_assertions = TRUE
    /\ panicked = FALSE
    /\ pushes = 0
    /\ stored = Tree_from_NodesRaw(shape, NodesRaw_from_Vec(shape, InputVec(shape, shape, 0)))
    /\ before = NoTree
    /\ returned = NoCall
    /\ sets = 0
    /\ builds = 0

\* writes and reads of single cells in any order
FrameNext ==
    \E c \in ProbeCells(shape) :
        \/ \E node \in SetNodes : TreeSet(CoordinateOf(shape, "NodeIndex", c), node)
        \/ TreeGet(CoordinateOf(shape, "LayerPosition", c))
        \/ TreeChildren(CoordinateOf(shape, "LayerPosition", c))
        \/ TreeChildrenIndices(CoordinateOf(shape, "LayerPosition", c))
        \/ TreeParrent(CoordinateOf(shape, "LayerPosition", c))
        \/ TreeParrentIndex(CoordinateOf(shape, "LayerPosition", c))

FrameSpec == FrameInit /\ [][FrameNext]_vars

(***************************************************************************)
(* Staging: a NodesRaw buffer is filled and converted into a tree          *)
(***************************************************************************)
\* number of nodes an input Vec or a buffer may hold beyond SIZE
MaxExcess == 1
\* number of NodesRaw::push calls in one behaviour
MaxPushes == 2

\* NodesRaw::push; debug_assert! only fires in a build with debug assertions
RawPush(node) ==
    /\ ~panicked
    /\ stored = <<>>
    /\ pushes < MaxPushes
    /\ Len(nodes) < shape + MaxExcess
    /\ IF debug_assertions /\ ~(Len(nodes) < shape)
       THEN panicked' = TRUE /\ UNCHANGED nodes
       ELSE nodes' = Append(nodes, node) /\ UNCHANGED panicked
    /\ pushes' = pushes + 1
    /\ returned' = [op |-> "push", node |-> node, len |-> Len(nodes)]
    /\ UNCHANGED <<shape, coordVars, debug_assertions, stored, before, sets, builds>>

\* NodesRaw::set: the debug_assert! and the indexing of the Vec both refuse
\* an index at or past the length, so that case panics in every build
NodesRaw_set(value, index, node) ==
    IF ~(index < Len(value))
    THEN [panic |-> TRUE, nodes |-> value, old |-> node]
    ELSE [panic |-> FALSE, nodes |-> [value EXCEPT ![index + 1] = node], old |-> At(value, index)]

\* NodesRaw::is_filled
NodesRaw_is_filled(S, value) == Len(value) = S

\* indices handed to NodesRaw::set: the first cell and the first free one
RawSetIndices(S, value) == {i \in {0, Len(value)} : is_valid_index(S, i)}

RawSet(index, node) ==
    /\ ~panicked
    /\ stored = <<>>
    /\ sets < MaxSets
    /\ \E swapped \in {NodesRaw_set(nodes, index, node)} :
           /\ nodes' = swapped.nodes
           /\ panicked' = swapped.panic
           /\ returned' = [op |-> "raw_set", index |-> index, node |-> node,
                           old |-> swapped.old, len |-> Len(nodes)]
    /\ sets' = sets + 1
    /\ UNCHANGED <<shape, coordVars, debug_assertions, pushes, stored, before, builds>>

RawIsFilled ==
    /\ ~panicked
    /\ stored = <<>>
    /\ returned.op # "is_filled"
    /\ returned' = [op |-> "is_filled", value |-> NodesRaw_is_filled(shape, nodes)]
    /\ UNCHANGED <<shape, coordVars, rawVars, stored, before, sets, builds>>

\* Tree::from(nodes): the buffer is consumed; `nodes` keeps what it held
TreeFromNodesRaw ==
    /\ ~panicked
    /\ stored = <<>>
    /\ stored' = Tree_from_NodesRaw(shape, nodes)
    /\ returned' = [op |-> "tree_from"]
    /\ before' = [shape |-> shape, stored |-> nodes]
    /\ UNCHANGED <<shape, coordVars, rawVars, sets, builds>>

\* lengths of the input Vec: nothing, the finest layer, and around SIZE
RawLens(S) == {0, layer_size(S, 0)} \cup (S - 1)..(S + MaxExcess)

\* NodesRaw::from(vec) for the Vec of tree_tests::nodes_raw(len)
RawInit ==
    /\ shape \in TreeShapes
    /\ query = NoQuery
    /\ result = None
    /\ debug_assertions \in BOOLEAN
    /\ panicked = FALSE
    /\ pushes = 0
    /\ \E len \in RawLens(shape) :
           /\ nodes = NodesRaw_from_Vec(shape, InputVec(shape, len, 0))
           /\ returned = [op |-> "nodes_raw_from", value |-> InputVec(shape, len, 0)]
    /\ stored = <<>>
    /\ before = NoTree
    /\ sets = 0
    /\ builds = 0

RawNext ==
    \/ \E node \in SetNodes : RawPush(node)
    \/ \E index \in RawSetIndices(shape, nodes) : RawSet(index, Empty)
    \/ RawIsFilled
    \/ TreeFromNodesRaw

RawSpec == RawInit /\ [][RawNext]_vars

(***************************************************************************)
(* Size parameters: the hand-specified tables of the eight shapes and the  *)
(* default implementations of the trait                                    *)
(***************************************************************************)
RECURSIVE default_rows_loop_until_zero(_, _)
\* the loop of the default rows_sizes() running until the row size itself is 0
default_rows_loop_until_zero(sizes, size) ==
    IF size # 0
    THEN default_rows_loop_until_zero(Append(sizes, size), size \div 2)
    ELSE Append(sizes, 1)

default_rows_sizes_until_zero(biggest_row_size) ==
    default_rows_loop_until_zero(<<>>, biggest_row_size)

RECURSIVE default_rows_loop(_, _)
\* while row_size / 2 != 0 { sizes.push(row_size); row_size /= 2; } sizes.push(1)
default_rows_loop(sizes, size) ==
    IF size \div 2 # 0
    THEN default_rows_loop(Append(sizes, size), size \div 2)
    ELSE Append(sizes, 1)

\* TreeInterface::rows_sizes, the default implementation
default_rows_sizes(biggest_row_size) == default_rows_loop(<<>>, biggest_row_size)

\* TreeInterface::layers_sizes, the default implementation, over the given rows
default_layers_sizes(rows) == [k \in 1..Len(rows) |-> rows[k] * rows[k] * rows[k]]

RECURSIVE tree_depth_loop(_, _)
tree_depth_loop(depth, size) ==
    IF size \div 2 # 0 THEN tree_depth_loop(depth + 1, size \div 2) ELSE depth

\* tree_depth(row_size)
tree_depth(size) == tree_depth_loop(0, size)

RECURSIVE layers_ranges_scan_overlapping(_, _, _)
\* the scan of layers_ranges starting every range but the first one cell early
layers_ranges_scan_overlapping(sizes, k, state) ==
    IF k > Len(sizes)
    THEN <<>>
    ELSE <<[start |-> IF state = 0 THEN 0 ELSE state - 1, end |-> state + sizes[k] - 1]>>
         \o layers_ranges_scan_overlapping(sizes, k + 1, state + sizes[k])

RECURSIVE layers_ranges_scan(_, _, _)
\* the scan of layers_ranges: state is the number of cells of the layers before k
layers_ranges_scan(sizes, k, state) ==
    IF k > Len(sizes)
    THEN <<>>
    ELSE <<[start |-> state,
            end |-> IF state + sizes[k] = 0 THEN 0 ELSE state + sizes[k] - 1]>>
         \o layers_ranges_scan(sizes, k + 1, state + sizes[k])

\* TreeInterface::layers_ranges
layers_ranges(S) == layers_ranges_scan(layers_sizes(S), 1, 0)

\* TreeInterface::layer_range
layer_range(S, d) == layers_ranges(S)[d + 1]

\* Index<RangeInclusive<NodeIndex<Self>>> for Tree: stored[start..=end]
Tree_index_RangeInclusive(tree, range) == SubSeq(tree, range.start + 1, range.end + 1)

\* Index<Depth<Self>> for Tree
Tree_index_Depth(S, tree, d) == Tree_index_RangeInclusive(tree, layer_range(S, d))

\* every shape the crate implements TreeInterface for
AllShapes == {SIZES[k] : k \in 1..Len(SIZES)}

QueryTables ==
    /\ query = NoQuery
    /\ query' = [op |-> "tables", arg |-> 0]
    /\ result' = [size |-> shape,
                  biggest_row_size |-> BIGGEST_ROW_SIZE(shape),
                  depth |-> DEPTH(shape),
                  rows |-> rows_sizes(shape),
                  layers |-> layers_sizes(shape)]
    /\ UNCHANGED <<shape, rawVars, treeVars>>

QueryDefaultTables ==
    /\ query = NoQuery
    /\ query' = [op |-> "default_tables", arg |-> 0]
    /\ result' = [rows |-> default_rows_sizes(BIGGEST_ROW_SIZE(shape)),
                  layers |-> default_layers_sizes(default_rows_sizes(BIGGEST_ROW_SIZE(shape)))]
    /\ UNCHANGED <<shape, rawVars, treeVars>>

QueryTreeDepth ==
    /\ query = NoQuery
    /\ query' = [op |-> "tree_depth", arg |-> BIGGEST_ROW_SIZE(shape)]
    /\ result' = tree_depth(BIGGEST_ROW_SIZE(shape))
    /\ UNCHANGED <<shape, rawVars, treeVars>>

QueryRowSize(d) ==
    /\ query = NoQuery
    /\ query' = [op |-> "row_size", arg |-> d]
    /\ result' = row_size(shape, d)
    /\ UNCHANGED <<shape, rawVars, treeVars>>

QueryLayerSize(d) ==
    /\ query = NoQuery
    /\ query' = [op |-> "layer_size", arg |-> d]
    /\ result' = layer_size(shape, d)
    /\ UNCHANGED <<shape, rawVars, treeVars>>

QueryLayerRange(d) ==
    /\ query = NoQuery
    /\ query' = [op |-> "layer_range", arg |-> d]
    /\ result' = layer_range(shape, d)
    /\ UNCHANGED <<shape, rawVars, treeVars>>

\* tree[depth] on the tree of tree_tests::nodes_raw(SIZE); trees are held
\* for the shapes of TreeShapes only
QueryIndexByDepth(d) ==
    /\ query = NoQuery
    /\ stored # <<>>
    /\ query' = [op |-> "index_by_depth", arg |-> d]
    /\ result' = Tree_index_Depth(shape, stored, d)
    /\ UNCHANGED <<shape, rawVars, treeVars>>

\* the Vec of tree_tests::nodes_raw(size): Filled(i) at i
nodes_raw_vec(size) == [i \in 1..size |-> Filled(i - 1)]

ShapeInit ==
    /\ shape \in AllShapes
    /\ query = NoQuery
    /\ result = None
    /\ nodes = <<>>
    /\ debug_assertions = TRUE
    /\ panicked = FALSE
    /\ pushes = 0
    /\ stored = IF shape \in TreeShapes
                THEN Tree_from_NodesRaw(shape, NodesRaw_from_Vec(shape, nodes_raw_vec(shape)))
                ELSE <<>>
    /\ before = NoTree
    /\ returned = NoCall
    /\ sets = 0
    /\ builds = 0

ShapeNext ==
    \/ QueryTables
    \/ QueryDefaultTables
    \/ QueryTreeDepth
    \/ \E d \in 0..MAX_DEPTH_INDEX(shape) :
           \/ QueryRowSize(d)
           \/ QueryLayerSize(d)
           \/ QueryLayerRange(d)
           \/ QueryIndexByDepth(d)

ShapeSpec == ShapeInit /\ [][ShapeNext]_vars

(***************************************************************************)
(* Validation: each action calls one validator or constructor with inputs  *)
(* inside and outside the valid range, in either kind of build             *)
(***************************************************************************)
\* the depths asked about: every layer, one past the deepest, and the word size
ProbeDepths(S) == 0..(MAX_DEPTH_INDEX(S) + 1) \cup {WordBits}

QueryNodePositionIsValid(x, y, z, depth) ==
    /\ query = NoQuery
    /\ query' = [op |-> "NodePosition::is_valid_position", arg |-> Position(x, y, z, depth)]
    /\ result' = NodePosition_is_valid_position(shape, debug_assertions, x, y, z, depth)
    /\ UNCHANGED <<shape, rawVars, treeVars>>

QueryNodePositionNew(x, y, z, depth) ==
    /\ query = NoQuery
    /\ query' = [op |-> "NodePosition::new", arg |-> Position(x, y, z, depth)]
    /\ result' = NodePosition_new(shape, debug_assertions, x, y, z, depth)
    /\ UNCHANGED <<shape, rawVars, treeVars>>

QueryLayerPositionIsValid(x, y, z, depth) ==
    /\ query = NoQuery
    /\ query' = [op |-> "LayerPosition::is_valid_position", arg |-> Position(x, y, z, depth)]
    /\ result' = LayerPosition_is_valid_position(shape, x, y, z, depth)
    /\ UNCHANGED <<shape, rawVars, treeVars>>

QueryLayerPositionNew(x, y, z, depth) ==
    /\ query = NoQuery
    /\ query' = [op |-> "LayerPosition::new", arg |-> Position(x, y, z, depth)]
    /\ result' = LayerPosition_new(shape, debug_assertions, x, y, z, depth)
    /\ UNCHANGED <<shape, rawVars, treeVars>>

QueryNodeIndexIsValid(i) ==
    /\ query = NoQuery
    /\ query' = [op |-> "NodeIndex::is_valid_index", arg |-> i]
    /\ result' = Returned(is_valid_index(shape, i))
    /\ UNCHANGED <<shape, rawVars, treeVars>>

QueryNodeIndexNewChecked(i) ==
    /\ query = NoQuery
    /\ query' = [op |-> "NodeIndex::new_checked", arg |-> i]
    /\ result' = NodeIndex_new_checked(shape, i)
    /\ UNCHANGED <<shape, rawVars, treeVars>>

QueryNodeIndexNew(i) ==
    /\ query = NoQuery
    /\ query' = [op |-> "NodeIndex::new", arg |-> i]
    /\ result' = NodeIndex_new(shape, debug_assertions, i)
    /\ UNCHANGED <<shape, rawVars, treeVars>>

ValidInit ==
    /\ shape \in ValidShapes
    /\ query = NoQuery
    /\ result = None
    /\ nodes = <<>>
    /\ debug_assertions \in BOOLEAN
    /\ panicked = FALSE
    /\ pushes = 0
    /\ stored = <<>>
    /\ before = NoTree
    /\ returned = NoCall
    /\ sets = 0
    /\ builds = 0

\* one call per behaviour: nothing is asked once a call has been answered
ValidNext ==
    /\ query = NoQuery
    /\ \/ \E x, y, z \in 0..BIGGEST_ROW_SIZE(shape), depth \in ProbeDepths(shape) :
              \/ QueryNodePositionIsValid(x, y, z, depth)
              \/ QueryNodePositionNew(x, y, z, depth)
              \/ QueryLayerPositionIsValid(x, y, z, depth)
              \/ QueryLayerPositionNew(x, y, z, depth)
       \/ \E i \in 0..(shape + MaxExcess) :
              \/ QueryNodeIndexIsValid(i)
              \/ QueryNodeIndexNewChecked(i)
              \/ QueryNodeIndexNew(i)

ValidSpec == ValidInit /\ [][ValidNext]_vars

(***************************************************************************)
(* Conversions between the coordinate systems, with every value the code   *)
(* constructs on the way                                                   *)
(***************************************************************************)
Last(t) == t[Len(t)]

\* is_valid of the four coordinate types.  A usize below zero stands for the
\* wrapped value, which is above every bound the validators compare with.
Coordinate_is_valid(S, c) ==
    CASE c.sys = "NodeIndex" -> c.v >= 0 /\ is_valid_index(S, c.v)
      [] c.sys = "LayerIndex" ->
             c.v.index >= 0 /\ LayerIndex_is_valid_index_depth(S, c.v.index, c.v.depth)
      [] c.sys = "NodePosition" ->
             LET valid == NodePosition_is_valid_position(S, TRUE, c.v.x, c.v.y, c.v.z, c.v.depth)
             IN  ~valid.panic /\ valid.value
      [] c.sys = "LayerPosition" ->
             LET valid == LayerPosition_is_valid_position(S, c.v.x, c.v.y, c.v.z, c.v.depth)
             IN  ~valid.panic /\ valid.value

\* depth() of the four coordinate types
Coordinate_depth(S, c) ==
    IF c.sys = "NodeIndex" THEN NodeIndex_depth(S, c.v) ELSE c.v.depth

\* From<_> for LayerPosition<T>: the values handed to a constructor, in the
\* order they are constructed; the last one is the conversion's result
LayerPosition_from(S, c) ==
    CASE c.sys = "NodeIndex" ->
             LET depth == NodeIndex_depth(S, c.v)
                 remainder == sum_cubes(rows_sizes(S), depth)
                 layer_index == [index |-> c.v - remainder, depth |-> depth]
             IN  << Coordinate("LayerIndex", layer_index),
                    Coordinate("LayerPosition", LayerPosition_from_LayerIndex(S, layer_index)) >>
      [] c.sys = "NodePosition" ->
             << Coordinate("LayerPosition", LayerPosition_from_NodePosition(S, c.v)) >>
      [] c.sys = "LayerIndex" ->
             << Coordinate("LayerPosition", LayerPosition_from_LayerIndex(S, c.v)) >>

\* From<_> for LayerIndex<T>
LayerIndex_from(S, c) ==
    LET through == IF c.sys = "LayerPosition" THEN <<c>> ELSE LayerPosition_from(S, c)
        constructed == IF c.sys = "LayerPosition" THEN <<>> ELSE through
    IN  constructed
            \o << Coordinate("LayerIndex", LayerIndex_from_LayerPosition(S, Last(through).v)) >>

\* From<_> for NodeIndex<T>
NodeIndex_from(S, c) ==
    LET through == IF c.sys = "LayerPosition" THEN <<c>> ELSE LayerPosition_from(S, c)
        constructed == IF c.sys = "LayerPosition" THEN <<>> ELSE through
        layer_index == LayerIndex_from_LayerPosition(S, Last(through).v)
    IN  constructed
            \o << Coordinate("LayerIndex", layer_index),
                  Coordinate("NodeIndex", NodeIndex_from_LayerPosition(S, Last(through).v)) >>

\* From<_> for NodePosition<T>
NodePosition_from(S, c) ==
    LET through == IF c.sys = "LayerPosition" THEN <<c>> ELSE LayerPosition_from(S, c)
        constructed == IF c.sys = "LayerPosition" THEN <<>> ELSE through
    IN  constructed
            \o << Coordinate("NodePosition", NodePosition_from_LayerPosition(S, Last(through).v)) >>

\* target::from(c): every constructor on the way debug_assert!s the validity
\* of what it is handed
convert(S, debug, c, target) ==
    LET constructed == CASE target = "LayerPosition" -> LayerPosition_from(S, c)
                         [] target = "LayerIndex" -> LayerIndex_from(S, c)
                         [] target = "NodeIndex" -> NodeIndex_from(S, c)
                         [] target = "NodePosition" -> NodePosition_from(S, c)
    IN  IF debug /\ \E k \in 1..Len(constructed) : ~Coordinate_is_valid(S, constructed[k])
        THEN Panic
        ELSE Returned(Last(constructed))

\* every value of a coordinate system that its is_valid accepts
ValidCoordinates(S, system) ==
    LET positions == {Coordinate(system, Position(x, y, z, d)) :
                          x \in 0..(BIGGEST_ROW_SIZE(S) - 1), y \in 0..(BIGGEST_ROW_SIZE(S) - 1),
                          z \in 0..(BIGGEST_ROW_SIZE(S) - 1), d \in 0..MAX_DEPTH_INDEX(S)}
        layer_indices == {Coordinate(system, [index |-> i, depth |-> d]) :
                              i \in 0..(layer_size(S, 0) - 1), d \in 0..MAX_DEPTH_INDEX(S)}
        indices == {Coordinate(system, i) : i \in 0..(S - 1)}
        candidates == CASE system = "NodeIndex" -> indices
                        [] system = "LayerIndex" -> layer_indices
                        [] OTHER -> positions
    IN  {c \in candidates : Coordinate_is_valid(S, c)}

QueryConvert(c, target) ==
    /\ query = NoQuery
    /\ query' = [op |-> "convert", arg |-> c, target |-> target]
    /\ result' = convert(shape, debug_assertions, c, target)
    /\ UNCHANGED <<shape, rawVars, treeVars>>

ConvInit ==
    /\ shape \in CoordShapes
    /\ query = NoQuery
    /\ result = None
    /\ nodes = <<>>
    /\ debug_assertions \in BOOLEAN
    /\ panicked = FALSE
    /\ pushes = 0
    /\ stored = <<>>
    /\ before = NoTree
    /\ returned = NoCall
    /\ sets = 0
    /\ builds = 0

ConvNext ==
    /\ query = NoQuery
    /\ \E system \in Systems :
           \E c \in ValidCoordinates(shape, system), target \in Systems \ {system} :
               QueryConvert(c, target)

ConvSpec == ConvInit /\ [][ConvNext]_vars

(***************************************************************************)
(* Arithmetic on NodeIndex.  A usize near the top of the machine word is   *)
(* written as the negative number it is congruent to modulo 2^WordBits     *)
(* (-1 is usize::MAX), so wrapping addition and subtraction are + and -.   *)
(***************************************************************************)
\* a < b on usize
usize_lt(a, b) == IF (a < 0) = (b < 0) THEN a < b ELSE b < 0

\* Add for NodeIndex re-validating against SIZE inclusively
NodeIndex_add_inclusive(S, overflow_checks, self, rhs) ==
    LET index == self + rhs
    IN  IF overflow_checks /\ usize_lt(index, self)
        THEN Panic
        ELSE IF index >= 0 /\ index <= S THEN Returned(index) ELSE Panic

\* Add<NodeIndex<T>> and Add<usize> for NodeIndex<T>: `self.index += rhs`
\* panics when it overflows in a build with overflow checks and wraps
\* otherwise; assert!(self.is_valid()) runs in every build
NodeIndex_add(S, overflow_checks, self, rhs) ==
    LET index == self + rhs
    IN  IF overflow_checks /\ usize_lt(index, self)
        THEN Panic
        ELSE IF index >= 0 /\ is_valid_index(S, index) THEN Returned(index) ELSE Panic

\* Sub<NodeIndex<T>> and Sub<usize> for NodeIndex<T>
NodeIndex_sub(S, overflow_checks, self, rhs) ==
    LET index == self - rhs
    IN  IF overflow_checks /\ usize_lt(self, rhs)
        THEN Panic
        ELSE IF index >= 0 /\ is_valid_index(S, index) THEN Returned(index) ELSE Panic

\* right-hand sides around the two ends of the valid range, and usize::MAX
ProbeOffsets(S, a) == {0, 1, a, a + 1, S - 1 - a, S - a, S, -1}

\* `let index = NodeIndex::new(a)` in the caller
ArithLet(a) ==
    /\ query = NoQuery
    /\ query' = [op |-> "let", arg |-> a]
    /\ UNCHANGED <<shape, result, rawVars, treeVars>>

\* `index + rhs`: the operator is handed a copy of the caller's index
ArithAdd(kind, rhs) ==
    /\ query.op = "let"
    /\ returned = NoCall
    /\ kind = "NodeIndex" => rhs >= 0 /\ is_valid_index(shape, rhs)
    /\ result' = NodeIndex_add(shape, debug_assertions, query.arg, rhs)
    /\ returned' = [op |-> "add", self |-> query.arg, rhs |-> rhs, kind |-> kind]
    /\ UNCHANGED <<shape, query, rawVars, stored, before, sets, builds>>

\* `index - rhs`
ArithSub(kind, rhs) ==
    /\ query.op = "let"
    /\ returned = NoCall
    /\ kind = "NodeIndex" => rhs >= 0 /\ is_valid_index(shape, rhs)
    /\ result' = NodeIndex_sub(shape, debug_assertions, query.arg, rhs)
    /\ returned' = [op |-> "sub", self |-> query.arg, rhs |-> rhs, kind |-> kind]
    /\ UNCHANGED <<shape, query, rawVars, stored, before, sets, builds>>

ArithInit ==
    /\ shape \in ValidShapes
    /\ query = NoQuery
    /\ result = None
    /\ nodes = <<>>
    /\ debug_assertions \in BOOLEAN
    /\ panicked = FALSE
    /\ pushes = 0
    /\ stored = <<>>
    /\ before = NoTree
    /\ returned = NoCall
    /\ sets = 0
    /\ builds = 0

ArithNext ==
    \/ \E a \in 0..(shape - 1) : ArithLet(a)
    \/ /\ query.op = "let"
       /\ \E kind \in {"NodeIndex", "usize"}, rhs \in ProbeOffsets(shape, query.arg) :
              \/ ArithAdd(kind, rhs)
              \/ ArithSub(kind, rhs)

ArithSpec == ArithInit /\ [][ArithNext]_vars

(***************************************************************************)
(* Properties of the coordinate systems                                    *)
(***************************************************************************)
RECURSIVE sum_seq(_, _)
\* sum of the first n entries of a table
sum_seq(tbl, n) == IF n = 0 THEN 0 ELSE sum_seq(tbl, n - 1) + tbl[n]

\* C1: Parent/child inverse: for every cell of depth > 0, each of the 8
\* indices returned by children_indices has that cell as its parrent_index.
C1_ParentChildInverse ==
    (query.op = "children_indices" /\ result # None)
        => \A k \in 1..8 : parrent_index(shape, result[1][k]) = Some(query.arg)

\* C4: Child ordering: children_indices of a cell of depth >= 1 with anchor
\* child a and child row size r is a, a+1, a+r, a+r+1, a+r*r, a+r*r+1,
\* a+r*r+r, a+r*r+r+1 in this order (x fastest, z slowest); in the 73-cell
\* tree cell 72 has children 64..71 and cell 71 has 42,43,46,47,58,59,62,63.
C4_ChildOrdering ==
    (query.op = "children_indices" /\ result # None)
        => LET c == query.arg
               d == NodeIndex_depth(shape, c)
               a == NodeIndex_from_NodePosition(shape,
                        child_position(NodePosition_from_NodeIndex(shape, c))[1])
               r == row_size(shape, d - 1)
           IN  /\ d >= 1
               /\ result[1] = <<a, a + 1, a + r, a + r + 1,
                                a + r * r, a + r * r + 1, a + r * r + r, a + r * r + r + 1>>
               /\ (shape = TREE_4 /\ c = 72) => result = Some(<<64, 65, 66, 67, 68, 69, 70, 71>>)
               /\ (shape = TREE_4 /\ c = 71) => result = Some(<<42, 43, 46, 47, 58, 59, 62, 63>>)

C4_Witness ==
    /\ shape = TREE_4
    /\ query = [op |-> "children_indices", arg |-> 71]
    /\ result = Some(<<42, 43, 46, 47, 58, 59, 62, 63>>)

\* C5: Round trip through LayerIndex: NodeIndex::from(LayerIndex::from(i))
\* is i for every valid NodeIndex i of every shape.
C5_LayerIndexRoundTrip ==
    query.op = "layer_index_round_trip" => result = query.arg

C5_Witness ==
    /\ shape = TREE_8
    /\ query = [op |-> "layer_index_round_trip", arg |-> 583]
    /\ result = 583

\* C6: Round trip through NodePosition: with p = LayerPosition::from(i),
\* LayerPosition::from(NodePosition::from(p)) is p again.
C6_NodePositionRoundTrip ==
    query.op = "node_position_round_trip"
        => result = LayerPosition_from_NodeIndex(shape, query.arg)

C6_Witness ==
    /\ shape = TREE_8
    /\ query = [op |-> "node_position_round_trip", arg |-> 575]
    /\ result = Position(3, 3, 3, 1)

\* C8: Depth lookup: depth(i) is the smallest d whose cumulative layer size
\* through d exceeds i; index 0 has depth 0, depth never decreases as the
\* index grows, and the first index of depth d is the cumulative size of the
\* shallower layers.
C8_DepthLookup ==
    query.op = "depth"
        => LET i == query.arg
               d == result
               tbl == layers_sizes(shape)
           IN  /\ d \in 0..MAX_DEPTH_INDEX(shape)
               /\ sum_seq(tbl, d + 1) > i
               /\ \A e \in 0..(d - 1) : sum_seq(tbl, e + 1) <= i
               /\ (i = 0) => (d = 0)
               /\ (i > 0) => NodeIndex_depth(shape, i - 1) <= d
               /\ (i > 0 /\ NodeIndex_depth(shape, i - 1) < d) => i = sum_seq(tbl, d)

C8_Witness ==
    /\ shape = TREE_4
    /\ query = [op |-> "depth", arg |-> 64]
    /\ result = 1

(***************************************************************************)
(* Properties of the tree                                                  *)
(***************************************************************************)
\* the nodes a combine rule is given for cell c: its 8 children as they stand in tree
ChildrenNow(S, tree, c) == [k \in 1..8 |-> At(tree, children_indices(S, c)[1][k])]

\* C2: After build(rule) returns, every cell of depth > 0 holds the rule
\* applied to its 8 children, in children_indices order, as they stand in the
\* final tree.
C2_BuildConsistent ==
    returned.op = "build"
        => \A c \in 0..(shape - 1) :
               NodeIndex_depth(shape, c) > 0
                   => At(stored, c) = combine_rule(returned.rule, ChildrenNow(shape, stored, c))

C2_Witness ==
    /\ returned.op = "build"
    /\ returned.rule = "first_child"
    /\ shape = TREE_4
    /\ At(before.stored, 72) = Filled(72)
    /\ At(stored, 72) = Filled(0)

\* C3: build never modifies a cell of depth 0: every cell of the finest layer
\* holds after build what it held before.
C3_BuildKeepsFinestLayer ==
    returned.op = "build"
        => /\ Len(stored) = Len(before.stored)
           /\ \A c \in 0..(layers_sizes(shape)[1] - 1) : At(stored, c) = At(before.stored, c)

C3_Witness ==
    /\ returned.op = "build"
    /\ shape = TREE_4
    /\ stored # before.stored
    /\ At(stored, 0) = Empty
    /\ At(stored, 63) = Filled(63)

\* C7: Shrink conversion: converting a tree t of row size 2n yields a tree s
\* of exactly SIZE_n cells with s[i] = t[i + (2n)^3] for every i.
C7_ShrinkKeepsTail ==
    returned.op = "from_bigger"
        => LET m == BIGGEST_ROW_SIZE(before.shape)
           IN  /\ m = 2 * BIGGEST_ROW_SIZE(shape)
               /\ Len(stored) = shape
               /\ \A i \in 0..(shape - 1) : At(stored, i) = At(before.stored, i + m * m * m)

C7_Witness ==
    /\ returned.op = "from_bigger"
    /\ before.shape = TREE_4
    /\ shape = TREE_2
    /\ At(before.stored, 0) = Filled(0)
    /\ At(stored, 0) = Filled(64)
    /\ At(stored, 8) = Filled(72)

\* the finest layer of tree_tests::build and the tree the test expects
FixtureHoles == {0, 1, 4, 5, 16, 17, 20, 21}

FixtureTree ==
    [i \in 1..TREE_4 |->
        IF i - 1 \in FixtureHoles THEN Empty
        ELSE IF i - 1 < 64 THEN Filled(i - 1)
        ELSE Empty]

FixtureBuilt ==
    [i \in 1..TREE_4 |->
        IF i - 1 \in FixtureHoles THEN Empty
        ELSE IF i - 1 < 64 THEN Filled(i - 1)
        ELSE IF i - 1 = 64 THEN Empty
        ELSE IF i - 1 = 72 THEN Reduced
        ELSE Filled(9999)]

\* C9: Build fixture: on the 73-cell tree whose finest layer has cells
\* 0,1,4,5,16,17,20,21 Empty and the rest Filled, build with the empty-count
\* rule yields cell 64 Empty, cells 65..71 Filled(9999), cell 72 Reduced and
\* leaves cells 0..63 as supplied.
C9_BuildFixture ==
    (returned.op = "build" /\ returned.rule = "empty_count"
        /\ before.shape = TREE_4 /\ before.stored = FixtureTree)
        => stored = FixtureBuilt

C9_Witness ==
    /\ returned.op = "build"
    /\ returned.rule = "empty_count"
    /\ before.shape = TREE_4
    /\ before.stored = FixtureTree
    /\ At(stored, 64) = Empty
    /\ At(stored, 72) = Reduced

\* C10: Tree::from(NodesRaw) always produces exactly SIZE cells: cell i is
\* the buffer's i-th node for i < min(len, SIZE) and Empty for the rest;
\* nodes at positions >= SIZE are discarded without an error.
C10_TreeFromNodesRaw ==
    returned.op = "tree_from"
        => /\ ~panicked
           /\ Len(stored) = shape
           /\ \A i \in 0..(shape - 1) :
                  At(stored, i) = IF i < Min(Len(nodes), shape) THEN At(nodes, i) ELSE Empty

C10_Witness ==
    /\ returned.op = "tree_from"
    /\ shape = TREE_2
    /\ Len(nodes) = TREE_2 + 1
    /\ At(nodes, TREE_2) = Filled(7)
    /\ At(stored, TREE_2 - 1) = Filled(TREE_2 - 1)

\* C11: Tree::set(coordinate, node) returns the content the addressed cell
\* held immediately before the call, and immediately afterwards get of the
\* same cell returns the supplied node, whichever of the four coordinate
\* systems the coordinate is given in.
C11_SetSwaps ==
    returned.op = "set"
        => /\ returned.old = Tree_get(before.shape, before.stored, returned.position)
           /\ Tree_get(shape, stored, returned.position) = returned.node
           /\ \A system \in Systems :
                  Tree_get(shape, stored,
                           CoordinateOf(shape, system, into_NodeIndex(shape, returned.position)))
                      = returned.node

C11_Witness ==
    /\ returned.op = "set"
    /\ shape = TREE_4
    /\ returned.position.sys = "LayerPosition"
    /\ returned.position.v = Position(0, 0, 0, 1)
    /\ returned.node = Empty
    /\ returned.old = Filled(64)
    /\ At(stored, 64) = Empty

\* C12: children_indices(c) and NodePosition::child_position return None if
\* and only if c has depth 0; for every cell of depth d >= 1 they return
\* Some, the 8 children are valid indices, and the anchor child is the same
\* absolute (x, y, z) at depth d - 1.
C12_ChildrenNoneIffFinest ==
    query.op = "children_indices"
        => LET c == query.arg
               p == NodePosition_from_NodeIndex(shape, c)
               d == NodeIndex_depth(shape, c)
           IN  /\ (result = None) <=> (d = 0)
               /\ (child_position(p) = None) <=> (d = 0)
               /\ d >= 1
                    => /\ result # None
                       /\ \A k \in 1..8 : is_valid_index(shape, result[1][k])
                       /\ child_position(p) = Some(Position(p.x, p.y, p.z, d - 1))
                       /\ NodePosition_from_NodeIndex(shape, result[1][1])
                              = Position(p.x, p.y, p.z, d - 1)

C12_Witness ==
    /\ shape = TREE_4
    /\ query = [op |-> "children_indices", arg |-> 71]
    /\ NodePosition_from_NodeIndex(shape, 71) = Position(2, 2, 2, 1)
    /\ result # None
    /\ result[1][1] = 42
    /\ NodePosition_from_NodeIndex(shape, 42) = Position(2, 2, 2, 0)

\* C13: parrent_index(c) returns None if and only if depth(c) is
\* MAX_DEPTH_INDEX (the single deepest cell); for every other valid cell it
\* returns Some(p) with p a valid NodeIndex of depth depth(c) + 1.
C13_ParentNoneIffDeepest ==
    query.op = "parrent_index"
        => LET d == NodeIndex_depth(shape, query.arg)
           IN  /\ (result = None) <=> (d = MAX_DEPTH_INDEX(shape))
               /\ d # MAX_DEPTH_INDEX(shape)
                    => /\ result # None
                       /\ is_valid_index(shape, result[1])
                       /\ NodeIndex_depth(shape, result[1]) = d + 1

C13_Witness ==
    /\ shape = TREE_4
    /\ query = [op |-> "parrent_index", arg |-> 63]
    /\ NodeIndex_depth(shape, 63) = 0
    /\ result = Some(71)

(***************************************************************************)
(* Properties of the validators and constructors                           *)
(***************************************************************************)
\* what the documentation of NodePosition::is_valid_position asks of a position
NodePositionAccepted(S, p) ==
    /\ p.depth <= MAX_DEPTH_INDEX(S)
    /\ \A c \in {p.x, p.y, p.z} : c < BIGGEST_ROW_SIZE(S) /\ c % (2^p.depth) = 0

\* C14: NodePosition::is_valid_position(x, y, z, depth) returns false
\* whenever a coordinate is not a multiple of 2^depth, or is >=
\* BIGGEST_ROW_SIZE, or depth > MAX_DEPTH_INDEX, and true otherwise;
\* NodePosition::new fails fast on exactly the inputs the validator rejects
\* (its assertion is compiled into builds with debug assertions only).
C14_NodePositionBoundary ==
    /\ query.op = "NodePosition::is_valid_position"
         => /\ ~result.panic
            /\ result.value = NodePositionAccepted(shape, query.arg)
    /\ query.op = "NodePosition::new"
         => /\ result.panic <=> (debug_assertions /\ ~NodePositionAccepted(shape, query.arg))
            /\ ~result.panic => result.value = query.arg

\* C15: LayerPosition::is_valid_position is a total predicate: for every
\* (x, y, z, depth), including depth > MAX_DEPTH_INDEX, it returns a boolean
\* without failing, true iff depth <= MAX_DEPTH_INDEX and x, y, z are each
\* below rows_sizes[depth].
C15_LayerPositionValidatorTotal ==
    query.op = "LayerPosition::is_valid_position"
        => /\ ~result.panic
           /\ result.value
                  = (/\ query.arg.depth <= MAX_DEPTH_INDEX(shape)
                     /\ \A c \in {query.arg.x, query.arg.y, query.arg.z} :
                            c < rows_sizes(shape)[query.arg.depth + 1])

C17_SizeParameters ==
    query.op = "tables"
        => /\ Len(result.rows) = result.depth
           /\ Len(result.layers) = result.depth
           /\ result.size = sum_seq(result.layers, Len(result.layers))
           /\ \A d \in 1..Len(result.layers) : result.layers[d] = result.rows[d]^3
           /\ result.rows[1] = result.biggest_row_size
           /\ result.rows[Len(result.rows)] = 1
           /\ \A d \in 1..(Len(result.rows) - 1) : result.rows[d] = 2 * result.rows[d + 1]

C17_Witness ==
    /\ shape = TREE_128
    /\ query.op = "tables"
    /\ result.rows = <<128, 64, 32, 16, 8, 4, 2, 1>>
    /\ result.size = 2396745

\* C18: for each of the 8 pre-defined shapes the hand-specified
\* rows_sizes() and layers_sizes() equal, element for element, what the
\* default implementations compute for that BIGGEST_ROW_SIZE.
C18_OverrideEquivalence ==
    query.op = "default_tables"
        => /\ result.rows = rows_sizes(shape)
           /\ result.layers = layers_sizes(shape)

C18_Witness ==
    /\ shape = TREE_8
    /\ query.op = "default_tables"
    /\ result.rows = <<8, 4, 2, 1>>
    /\ result.layers = <<512, 64, 8, 1>>

(***************************************************************************)
(* Properties of the staging buffer                                        *)
(***************************************************************************)
\* C19: after any sequence of NodesRaw::from(Vec), push and set the
\* buffer's length is <= SIZE; from(Vec) keeps exactly the first
\* min(len, SIZE) nodes in order, push fails fast instead of growing past
\* SIZE, set never changes the length, and is_filled() is true iff the
\* length equals SIZE.
C19_NodesRawBounded ==
    /\ Len(nodes) <= shape
    /\ returned.op = "nodes_raw_from"
         => nodes = SubSeq(returned.value, 1, Min(Len(returned.value), shape))
    /\ returned.op = "push"
         => IF returned.len >= shape
            THEN panicked /\ Len(nodes) = returned.len
            ELSE ~panicked /\ nodes[Len(nodes)] = returned.node /\ Len(nodes) = returned.len + 1
    /\ returned.op = "raw_set" => Len(nodes) = returned.len
    /\ returned.op = "is_filled" => (returned.value <=> Len(nodes) = shape)

(***************************************************************************)
(* Properties of the traversal of build                                    *)
(***************************************************************************)
\* C20: during one build call every cell of depth > 0 is written exactly
\* once (and no other cell is written), cells are written in non-decreasing
\* depth order, and when a cell is written all 8 of its children, unless
\* they belong to the finest layer, have been written already.
C20_BuildTraversalOrder ==
    returned.op = "build"
        => LET w == returned.writes
           IN  /\ \A c \in 0..(shape - 1) :
                      Cardinality({k \in 1..Len(w) : w[k] = c})
                          = IF NodeIndex_depth(shape, c) > 0 THEN 1 ELSE 0
               /\ \A k \in 1..(Len(w) - 1) :
                      NodeIndex_depth(shape, w[k]) <= NodeIndex_depth(shape, w[k + 1])
               /\ \A k \in 1..Len(w) :
                      \A n \in 1..8 :
                          LET child == children_indices(shape, w[k])[1][n]
                          IN  \/ NodeIndex_depth(shape, child) = 0
                              \/ \E j \in 1..(k - 1) : w[j] = child

C20_Witness ==
    /\ returned.op = "build"
    /\ shape = TREE_4
    /\ returned.writes = <<64, 65, 66, 67, 68, 69, 70, 71, 72>>

\* C21: tree_depth, the default of TreeInterface::DEPTH, returns the number
\* of layers log2(biggest_row_size) + 1 for every power-of-two row size,
\* equal to the length of the default rows_sizes() and to the DEPTH constant
\* hand-specified for each pre-defined shape.
C21_TreeDepthFormula ==
    query.op = "tree_depth"
        => /\ result >= 1
           /\ 2^(result - 1) = query.arg
           /\ result = Len(default_rows_sizes(query.arg))
           /\ result = DEPTH(shape)

\* C22: for every shape and depth d, layer_range(d) is the inclusive range
\* [c, c + layers_sizes[d] - 1] with c the sum of layers_sizes[0..d]; the
\* ranges are pairwise disjoint and together cover [0, SIZE) (they are not
\* empty, the first starts at 0, each next one starts right after the one
\* before and the last ends at SIZE - 1); and indexing the tree by Depth d
\* returns exactly layers_sizes[d] cells whose k-th element is the cell
\* addressed by LayerIndex(k, d).
C22_LayerSlices ==
    /\ query.op = "layer_range"
         => LET d == query.arg
                c == sum_seq(layers_sizes(shape), d)
            IN  /\ result = [start |-> c, end |-> c + layers_sizes(shape)[d + 1] - 1]
                /\ result.start <= result.end
                /\ d = 0 => result.start = 0
                /\ d > 0 => result.start = layer_range(shape, d - 1).end + 1
                /\ d = MAX_DEPTH_INDEX(shape) => result.end = shape - 1
    /\ query.op = "index_by_depth"
         => /\ Len(result) = layers_sizes(shape)[query.arg + 1]
            /\ \A k \in 0..(Len(result) - 1) :
                   result[k + 1]
                       = Tree_get(shape, stored,
                                  Coordinate("LayerIndex", [index |-> k, depth |-> query.arg]))

C22_Witness ==
    /\ shape = TREE_4
    /\ query = [op |-> "index_by_depth", arg |-> 1]
    /\ Len(result) = 8
    /\ result[1] = Filled(64)
    /\ result[8] = Filled(71)

\* C23: every conversion between the four coordinate systems is total on
\* valid input: given a value its own system accepts, the conversion
\* completes without tripping a constructor assertion and yields a value of
\* the target system that satisfies the target's is_valid and has the same
\* depth.
C23_ConversionsTotal ==
    query.op = "convert"
        => /\ ~result.panic
           /\ result.value.sys = query.target
           /\ Coordinate_is_valid(shape, result.value)
           /\ Coordinate_depth(shape, result.value) = Coordinate_depth(shape, query.arg)

C23_Witness ==
    /\ shape = TREE_4
    /\ debug_assertions
    /\ query.op = "convert"
    /\ query.target = "NodePosition"
    /\ query.arg.sys = "LayerIndex"
    /\ query.arg.v = [index |-> 7, depth |-> 1]
    /\ ~result.panic
    /\ result.value.v = Position(2, 2, 2, 1)

LayerCells(S, d) == layer_range(S, d).start..layer_range(S, d).end

\* C25: children partition the layer below: for d >= 1, children_indices of
\* a cell of depth d is 8 pairwise distinct valid indices, all of depth
\* d - 1; the children of different cells of depth d are disjoint (the
\* children of the layer are as many as 8 per cell), and the children of all
\* cells of depth d together are exactly layer d - 1.
C25_ChildrenPartition ==
    query.op = "children_of_layer"
        => LET d == query.arg
               kids(p) == {result[p][1][k] : k \in 1..8}
               all == UNION {kids(p) : p \in DOMAIN result}
           IN  /\ DOMAIN result = LayerCells(shape, d)
               /\ \A p \in DOMAIN result :
                      /\ result[p] # None
                      /\ Cardinality(kids(p)) = 8
                      /\ \A e \in kids(p) : /\ is_valid_index(shape, e)
                                            /\ NodeIndex_depth(shape, e) = d - 1
               /\ Cardinality(all) = 8 * Cardinality(DOMAIN result)
               /\ all = LayerCells(shape, d - 1)

C25_Witness ==
    /\ shape = TREE_4
    /\ query = [op |-> "children_of_layer", arg |-> 1]
    /\ result[64] = Some(<<0, 1, 4, 5, 16, 17, 20, 21>>)
    /\ result[71] = Some(<<42, 43, 46, 47, 58, 59, 62, 63>>)

\* the tree with its finest layer kept and every cell of depth > 0 replaced by fill
UpperReplaced(S, tree, fill) ==
    [i \in 1..S |-> IF i - 1 < layer_size(S, 0) THEN tree[i] ELSE fill]

\* C26: the result of build depends only on the finest layer and the rule:
\* a tree of the same shape with identical depth-0 cells but other contents
\* at depth > 0 is equal to this one after build with the same rule.
C26_BuildFromFinestLayer ==
    returned.op = "build"
        => \A other \in {UpperReplaced(shape, before.stored, fill) :
                             fill \in {Empty, Reduced, Filled(1)}} :
               Tree_build(shape, other, returned.rule).stored = stored

C26_Witness ==
    /\ returned.op = "build"
    /\ returned.rule = "empty_count"
    /\ shape = TREE_4
    /\ builds = 1
    /\ before.stored[1] = Empty
    /\ before.stored[73] = Filled(72)
    /\ UpperReplaced(shape, before.stored, Empty) # before.stored
    /\ stored[73] = Reduced

\* C27: build is idempotent: calling build again with the same rule right
\* after a build leaves every cell unchanged.
C27_BuildIdempotent ==
    returned.op = "build" => Tree_build(shape, stored, returned.rule).stored = stored

C27_Witness ==
    /\ returned.op = "build"
    /\ returned.rule = "first_child"
    /\ shape = TREE_4
    /\ builds = 2
    /\ before.stored = stored
    /\ stored[1] = Empty
    /\ stored[73] = Empty
    /\ stored[72] = Filled(42)

TreeReads == {"get", "children", "children_indices", "parrent", "parrent_index"}

\* C29: frame: Tree::set leaves every cell other than the addressed one
\* unchanged; get, children, children_indices, parrent and parrent_index
\* leave every cell unchanged, wherever in a sequence of operations they
\* are called.
C29_Frame ==
    /\ returned.op = "set"
         => /\ Len(stored) = Len(before.stored)
            /\ \A i \in 0..(shape - 1) :
                   i # into_NodeIndex(shape, returned.position)
                       => At(stored, i) = At(before.stored, i)
    /\ returned.op \in TreeReads => stored = before.stored

C29_Witness ==
    /\ returned.op = "children"
    /\ returned.position.sys = "LayerPosition"
    /\ returned.position.v = Position(0, 0, 0, 2)
    /\ returned.value[1][1] = Empty
    /\ shape = TREE_4
    /\ sets = 1
    /\ At(stored, 64) = Empty
    /\ At(stored, 65) = Filled(65)
    /\ stored = before.stored

\* C30: index/position bijection: NodePosition::from(NodeIndex) maps
\* [0, SIZE) one-to-one onto the set of all (x, y, z, depth) accepted by
\* NodePosition::is_valid_position, and NodeIndex::from(NodePosition) is its
\* inverse: every index comes back from its position, every accepted
\* position comes back from its index, and there are SIZE accepted positions.
C30_IndexPositionBijection ==
    query.op = "convert"
        => /\ (query.arg.sys = "NodeIndex" /\ query.target = "NodePosition")
                => /\ ~result.panic
                   /\ Coordinate_is_valid(shape, result.value)
                   /\ NodeIndex_from_NodePosition(shape, result.value.v) = query.arg.v
                   /\ query.arg.v = 0
                        => Cardinality(ValidCoordinates(shape, "NodePosition")) = shape
           /\ (query.arg.sys = "NodePosition" /\ query.target = "NodeIndex")
                => /\ ~result.panic
                   /\ result.value.v \in 0..(shape - 1)
                   /\ NodePosition_from_NodeIndex(shape, result.value.v) = query.arg.v

C30_Witness ==
    /\ shape = TREE_4
    /\ query.op = "convert"
    /\ query.arg.sys = "NodePosition"
    /\ query.arg.v = Position(2, 2, 2, 1)
    /\ query.target = "NodeIndex"
    /\ ~result.panic
    /\ result.value.v = 71
    /\ NodePosition_from_NodeIndex(TREE_4, 71) = Position(2, 2, 2, 1)

====
